---- MODULE Spec2Model ----
(***************************************************************************)
(* State-machine model of the optimisation driver _af_design               *)
(* (src/af/src/design.py): restart, the gradient step, the annealed design *)
(* stages, template_predesign, the ensemble update (_update), recycling    *)
(* (_recycle), the trajectory recorder (_save_results) and the semigreedy  *)
(* search with its mutation proposal (mut).                                *)
(*                                                                         *)
(* A session (one _af_design object) is a record; every method is an       *)
(* operator from a session (and the method's inputs) to the session after  *)
(* the call.  The structure-prediction oracle, the optimiser and the       *)
(* jax random functions are external: the oracle's answer is an input of   *)
(* the step that queries it, the random functions are deterministic        *)
(* functions of the key they are given.                                    *)
(***************************************************************************)
EXTENDS Integers, Sequences, FiniteSets, TLC

VARIABLES self, twin
vars == <<self, twin>>

-----------------------------------------------------------------------------
(* Bounds of the model *)
MaxSteps == 3      \* a session's fuel: the steps it records and its restarts
MaxStageIters == 4 \* the fuel of the sessions that run the annealed stages
MaxMutSteps == 1   \* the fuel of the sessions whose mutation loop is examined
MaxUpdates == 2    \* direct calls of _update a session makes
MaxIters == 2      \* iters of a design stage / semigreedy call: 1..MaxIters
MaxTries == 2      \* tries of design_semigreedy: 0..MaxTries
MaxRecycles == 1   \* opt["recycles"]: 0..MaxRecycles
MaxA == 2          \* alphabet size of the sequences the oracle returns: 1..MaxA
MaxVal == 1        \* the oracle's per-replica answer: 0..MaxVal
KeyMod == 8        \* size of the key space of the random stream
SeqLen == 2        \* self._len

(* Program constants *)
NumTemplateModels == 2   \* ns = jnp.arange(2) if use_templates
NumModels == 5           \* ns = jnp.arange(5) otherwise
NumRecycle == 3          \* self._runner.config.model.num_recycle

(* None is the empty tuple, a value v that may be None is <<v>> *)
None == <<>>
The(S) == CHOOSE x \in S : TRUE

-----------------------------------------------------------------------------
(* Exact rationals <<numerator, denominator>>, reduced; <<1,0>> is np.inf *)
Abs(x) == IF x < 0 THEN -x ELSE x

RECURSIVE GCD(_, _)
GCD(a, b) == IF b = 0 THEN a ELSE GCD(b, a % b)

(* a zero denominator is a float's non-finite value: <<1,0>> inf, <<-1,0>>
   -inf, <<0,0>> nan; the comparisons below are false on nan, as in IEEE *)
Rat(n, d) ==
  LET g == GCD(Abs(n), Abs(d))
      sg == IF d < 0 THEN -1 ELSE 1
  IN  IF g = 0 THEN <<0, 0>> ELSE <<(sg * n) \div g, (sg * d) \div g>>

R(n) == <<n, 1>>
Inf == <<1, 0>>
NaN == <<0, 0>>
RAdd(a, b) == Rat(a[1] * b[2] + b[1] * a[2], a[2] * b[2])
RSub(a, b) == Rat(a[1] * b[2] - b[1] * a[2], a[2] * b[2])
RMul(a, b) == Rat(a[1] * b[1], a[2] * b[2])
RLess(a, b) == a[1] * b[2] < b[1] * a[2]
RLeq(a, b) == a[1] * b[2] <= b[1] * a[2]

RECURSIVE RSum(_)
RSum(xs) == IF xs = <<>> THEN R(0) ELSE RAdd(Head(xs), RSum(Tail(xs)))

(* jnp.asarray(v).mean(0) / x.mean(0): the mean over the leading axis *)
Mean(xs) == RMul(RSum(xs), Rat(1, Len(xs)))

-----------------------------------------------------------------------------
(* The random stream: jax.random over a key space of KeyMod keys *)
PRNGKey(seed) == seed % KeyMod

split(key, num) ==
  [j \in 1..num |-> IF j = 1 THEN (5 * key + 1) % KeyMod
                             ELSE (3 * key + j) % KeyMod]

randint(key, minval, maxval) == minval + ((key \div 2) % (maxval - minval))

Remove(xs, idx) == SubSeq(xs, 1, idx - 1) \o SubSeq(xs, idx + 1, Len(xs))

(* jax.random.choice(key, ns, (m,), replace=False): m distinct members *)
RECURSIVE choice(_, _, _)
choice(key, ns, m) ==
  IF m = 0 \/ ns = <<>> THEN <<>>
  ELSE LET idx == (key % Len(ns)) + 1
       IN  <<ns[idx]>> \o choice(key \div Len(ns) + 1, Remove(ns, idx), m - 1)

(* argmax of 0.01 * jax.random.normal(_key, shape): one identity a position *)
InitialSeq(key, A) == [p \in 1..SeqLen |-> ((key \div (2 ^ (p - 1))) + p) % A]

-----------------------------------------------------------------------------
(* _recycle for one replica whose oracle answer is x *)
RecycleCount(s) ==
  IF s.args.recycle_mode \in {"add_prev", "backprop"} THEN NumRecycle
  ELSE s.opt.recycles

(* the passes of the "average" loop: one oracle call a pass, each with a
   fresh split of the key; returns the gradients and the calls made *)
RECURSIVE AveragePasses(_, _, _, _)
AveragePasses(r, recycles, key, x) ==
  IF r > recycles THEN [grads |-> <<>>, calls |-> 0]
  ELSE LET rest == AveragePasses(r + 1, recycles, split(key, 2)[1], x)
       IN  [grads |-> <<R(x)>> \o rest.grads, calls |-> rest.calls + 1]

(* recycles = _opt["recycle"] = jax.random.randint(...): the options the
   oracle is handed, with the drawn count stored under "recycle" *)
SampledOpt(_opt, drawn) == ("recycle" :> drawn) @@ _opt

(* the pass count the oracle runs: the "recycles" entry of its options *)
OracleRecycles(_opt) == _opt.recycles

_recycle(s, x, key, backprop) ==
  LET recycles == RecycleCount(s)
      opt == [s.opt EXCEPT !.recycles = recycles]
      sampled == s.args.recycle_mode = "sample"
      drawn == IF sampled THEN randint(split(key, 2)[2], 0, recycles + 1)
               ELSE recycles
      _opt == IF sampled THEN SampledOpt(opt, drawn) ELSE opt
  IN  IF s.args.recycle_mode = "average"
      THEN LET ps == AveragePasses(0, recycles, key, x)
           IN  [loss |-> x, recycles |-> recycles,
                told |-> OracleRecycles(opt), ncalls |-> ps.calls,
                grad |-> IF backprop THEN Mean(ps.grads) ELSE R(0),
                opt |-> opt]
      ELSE [loss |-> x, recycles |-> drawn, told |-> OracleRecycles(_opt),
            ncalls |-> 1, grad |-> IF backprop THEN R(x) ELSE R(0),
            opt |-> opt]

-----------------------------------------------------------------------------
(* _update: replica selection and the two execution strategies *)
Range(n) == [j \in 1..n |-> j - 1]
Take(xs, m) == SubSeq(xs, 1, IF m < Len(xs) THEN m ELSE Len(xs))

ns(s) == IF s.args.use_templates THEN Range(NumTemplateModels) ELSE Range(NumModels)

UpdateKeys(s) ==
  LET ks == split(s._key, 2)
      sampling == s.args.model_sample /\ s.opt.models # Len(ns(s))
      ks2 == split(ks[2], 2)
  IN  [_key |-> ks[1],
       key |-> IF sampling THEN ks2[1] ELSE ks[2],
       _model_num |-> IF sampling THEN choice(ks2[2], ns(s), s.opt.models)
                      ELSE Take(ns(s), s.opt.models)]

(* self._model_params: the parameters of every replica of the pool, by index *)
_model_params(s) == ns(s)

(* the replicas the parallel branch batches over: self._model_params, or
   the sampled ones of them *)
ParallelParams(s, model_num) ==
  IF s.args.model_sample THEN model_num ELSE _model_params(s)

(* the replicas an update evaluates, in order *)
Batch(s, model_num) ==
  IF s.args.model_parallel THEN ParallelParams(s, model_num) ELSE model_num

(* AuxiliaryOutput of one replica: the discretised sequence handed in, the
   pass count _recycle reports, and the replica that produced it *)
Aux(params, rec, n) == [seq |-> params, recycles |-> rec.recycles, model |-> n]

(* the mean over the replicas of the batch p, whose results are recs *)
Aggregate(s, backprop, params, u, p, recs) ==
  [s EXCEPT
     !._params = params,
     !._key = u._key,
     !._model_num = u._model_num,
     !.opt = recs[1].opt,
     !._grad = IF backprop THEN Mean([j \in 1..Len(p) |-> recs[j].grad]) ELSE @,
     !._loss = Mean([j \in 1..Len(p) |-> R(recs[j].loss)]),
     !._losses = [con |-> Mean([j \in 1..Len(p) |-> R(recs[j].loss)])],
     !._outs = <<Aux(params, recs[1], p[1])>>,
     !.agg = p,
     !.told = recs[1].told,
     !.ncalls = recs[1].ncalls]

_update(s, backprop, resp) ==
  The({ The({ Aggregate(s, backprop, IF backprop THEN s._state ELSE s._params,
                        u, p, [j \in 1..Len(p) |->
                                 _recycle(s, resp[p[j]], u.key, backprop)]) :
              p \in {Batch(s, u._model_num)} }) :
        u \in {UpdateKeys(s)} })

-----------------------------------------------------------------------------
(* _save_results: BestCheckpoint, the loss log and the Trajectory *)

(* variant: a tie replaces the checkpoint too *)
BestImprovesOnTie(save_best, loss, best_loss) == save_best /\ RLeq(loss, best_loss)

BestImproves(save_best, loss, best_loss) == save_best /\ RLess(loss, best_loss)

(* the entry of the loss log: the sub-losses with "models", "recycles" and
   "loss" added (the copies of soft, hard and temp are left out) *)
LogEntry(s) ==
  [con |-> s._losses.con, models |-> s._model_num,
   recycles |-> s._outs[1].recycles, loss |-> s._loss]

(* variant: the snapshot replaces the trajectory *)
TrajReplace(traj, outs) == [seq |-> <<outs.seq>>]

TrajAppend(traj, outs) == [seq |-> Append(traj.seq, outs.seq)]

_save_results(s, save_best) ==
  [s EXCEPT
     !._best_loss = IF BestImproves(save_best, s._loss, s._best_loss)
                    THEN s._loss ELSE @,
     !._best_outs = IF BestImproves(save_best, s._loss, s._best_loss)
                    THEN s._outs ELSE @,
     !._losses = LogEntry(s),
     !.losses = Append(@, LogEntry(s)),
     !._traj = TrajAppend(@, s._outs[1]),
     !.hist = Append(@, [loss |-> s._loss, save_best |-> save_best,
                         outs |-> s._outs]),
     !.fuel = @ - 1]

-----------------------------------------------------------------------------
(* _step: one step of gradient descent *)
Sign(g) == IF g[1] > 0 THEN R(1) ELSE IF g[1] < 0 THEN R(-1) ELSE R(0)

(* g * lr_scale * sqrt(len) / (norm(g) + 1e-7), for a one-dimensional g and
   up to the constant sqrt(len) *)
NormalizeGrad(g, lr_scale) == RMul(Sign(g), lr_scale)

(* self._update_fun(k, grad, state) on the discretised sequence: a step
   along a non-zero gradient moves one position to its next identity *)
_update_fun(k, g, state, A) ==
  IF g[1] = 0 \/ g[2] = 0 THEN state
  ELSE [state EXCEPT ![(k % SeqLen) + 1] = (@ + 1) % A]

ApplyGrad(u, g) ==
  [u EXCEPT !._grad = g,
            !._state = _update_fun(u._k, g, u._state, u.args.A),
            !._k = @ + 1]

_step(s, lr_scale, save_best, resp) ==
  The({ _save_results(v, save_best) :
          v \in { ApplyGrad(u, NormalizeGrad(u._grad, lr_scale)) :
                    u \in {_update(s, TRUE, resp)} } })

-----------------------------------------------------------------------------
(* restart *)
DefaultOpt(args) ==
  [models |-> args.models, recycles |-> args.recycles,
   temp |-> R(1), soft |-> R(0), hard |-> 0, dropout |-> TRUE,
   gumbel |-> FALSE, template_dropout |-> R(0)]

(* the locals of the call in progress *)
IdleFrame ==
  [iters |-> 0, i |-> 0, temp |-> R(0), e_temp |-> R(0), soft |-> R(0),
   e_soft |-> R(0), hard |-> FALSE, dropout |-> FALSE, gumbel |-> FALSE,
   defaulted |-> <<FALSE, FALSE>>, save_best |-> FALSE, tries |-> 0,
   seq |-> <<>>, buff |-> <<>>]

(* the object before its first restart: nothing recorded, nothing evaluated.
   Beside the fields of _af_design a session carries what an observer of
   the run would note down: told, ncalls and agg (the pass count the oracle
   was told, the oracle calls made for a replica and the replicas
   aggregated over, in the last update), hist (the losses recorded and
   whether save_best was asked), kept (the last restart kept the history),
   fuel (the steps the session may still record), and the position of the
   call in progress: pc, its locals fr, and the exception it raised *)
Blank(args) ==
  [args |-> args, opt |-> DefaultOpt(args), _k |-> 0, _key |-> 0,
   _params |-> <<>>, _state |-> <<>>, _traj |-> [seq |-> <<>>],
   losses |-> <<>>, _best_loss |-> Inf, _best_outs |-> <<>>,
   _loss |-> R(0), _losses |-> [con |-> R(0)], _outs |-> <<>>,
   _model_num |-> <<>>, _grad |-> R(0),
   told |-> 0, ncalls |-> 0, agg |-> <<>>, hist |-> <<>>, kept |-> FALSE,
   fuel |-> 0, pc |-> "idle", fr |-> IdleFrame,
   raised |-> ""]

(* variant: the seed passed is not used *)
SeedIgnored(seed, r) == r

(* random.randint(0,2147483647) if seed is None else seed; r is the value
   random.randint draws *)
SeedOf(seed, r) == IF seed = None THEN r ELSE seed[1]

_init_seq(s) ==
  [s EXCEPT !._key = split(s._key, 2)[1],
            !._params = InitialSeq(split(s._key, 2)[2], s.args.A),
            !._state = InitialSeq(split(s._key, 2)[2], s.args.A)]

ResetHistory(s) ==
  [s EXCEPT !._traj = [seq |-> <<>>], !.losses = <<>>,
            !._best_loss = Inf, !._best_outs = <<>>,
            !.hist = <<>>]

(* the history after a restart: kept, or reset *)
RestartHistory(s, keep_history) ==
  IF keep_history THEN s ELSE ResetHistory(s)

Reseeded(s, seed, r, keep_history) ==
  [s EXCEPT !.opt = IF keep_history THEN @ ELSE DefaultOpt(s.args),
            !._k = 0,
            !._key = PRNGKey(SeedOf(seed, r)),
            !.kept = keep_history,
            !.raised = ""]

restart(s, seed, r, keep_history) ==
  The({ RestartHistory(s2, keep_history) :
          s2 \in { _init_seq(s1) : s1 \in {Reseeded(s, seed, r, keep_history)} } })

-----------------------------------------------------------------------------
(* design: the annealed stage *)

(* variant: the division never raises, as on floats of numpy *)
DivSilent(den) == FALSE

(* i/(iters-1) on Python ints raises ZeroDivisionError when iters is 1 *)
DivRaises(den) == den = 0

Frac(i, den) == Rat(i, den)

TempAt(temp, e_temp, i, iters) ==
  RAdd(e_temp, RMul(RSub(temp, e_temp),
                    RMul(RSub(R(1), Frac(i, iters - 1)),
                         RSub(R(1), Frac(i, iters - 1)))))

(* variant: the fraction is i/iters *)
SoftAtOverIters(soft, e_soft, i, iters) ==
  RAdd(soft, RMul(RSub(e_soft, soft), Frac(i, iters)))

SoftAt(soft, e_soft, i, iters) ==
  RAdd(soft, RMul(RSub(e_soft, soft), Frac(i, iters - 1)))

LrScale(soft, temp) == RAdd(RSub(R(1), soft), RMul(soft, temp))

Return(s) == [s EXCEPT !.pc = "idle", !.fr = IdleFrame]

(* the exception leaves the call and reaches the caller, whose run ends *)
Raise(s, err) == [s EXCEPT !.pc = "raised", !.fr = IdleFrame, !.raised = err]

(* the end of one pass of a for loop over range(iters) *)
Advance(s) ==
  IF s.fr.i + 1 < s.fr.iters THEN [s EXCEPT !.fr = [@ EXCEPT !.i = @ + 1]]
  ELSE Return(s)

StageOpt(opt, hard, dropout, gumbel) ==
  [opt EXCEPT !.hard = IF hard THEN 1 ELSE 0, !.dropout = dropout,
              !.gumbel = gumbel]

design(s, iters, temp, e_temp, soft, e_soft, hard, dropout, gumbel, save_best) ==
  [s EXCEPT
     !.opt = StageOpt(@, hard, dropout, gumbel),
     !.raised = "",
     !.fr = IF iters > 0
            THEN [IdleFrame EXCEPT
                    !.iters = iters, !.temp = temp, !.soft = soft,
                    !.e_soft = IF e_soft = None THEN soft ELSE e_soft[1],
                    !.e_temp = IF e_temp = None THEN temp ELSE e_temp[1],
                    !.defaulted = <<e_temp = None, e_soft = None>>,
                    !.hard = hard, !.dropout = dropout, !.gumbel = gumbel,
                    !.save_best = save_best]
            ELSE IdleFrame,
     !.pc = IF iters > 0 THEN "design" ELSE "idle"]

Scheduled(s) ==
  [s EXCEPT !.opt = [@ EXCEPT
     !.temp = TempAt(s.fr.temp, s.fr.e_temp, s.fr.i, s.fr.iters),
     !.soft = SoftAt(s.fr.soft, s.fr.e_soft, s.fr.i, s.fr.iters)]]

(* one pass of the loop of design *)
design_iter(s, resp) ==
  IF DivRaises(s.fr.iters - 1) THEN Raise(s, "ZeroDivisionError")
  ELSE The({ Advance(s2) :
               s2 \in { _step(s1, LrScale(s1.opt.soft, s1.opt.temp),
                              s1.fr.save_best, resp) :
                          s1 \in {Scheduled(s)} } })

-----------------------------------------------------------------------------
(* template_predesign *)
template_predesign(s, iters, soft, hard, dropout, temp, save_best) ==
  [s EXCEPT
     !.opt = [@ EXCEPT !.hard = IF hard THEN 1 ELSE 0,
                       !.soft = IF soft THEN R(1) ELSE R(0),
                       !.dropout = dropout, !.temp = temp],
     !.raised = "",
     !.fr = IF iters > 0
            THEN [IdleFrame EXCEPT !.iters = iters, !.save_best = save_best]
            ELSE IdleFrame,
     !.pc = IF iters > 0 THEN "predesign" ELSE "idle"]

TemplateScheduled(s) ==
  [s EXCEPT !.opt = [@ EXCEPT !.template_dropout =
                                Frac(s.fr.i, s.fr.iters - 1)]]

predesign_iter(s, resp) ==
  IF DivRaises(s.fr.iters - 1) THEN Raise(s, "ZeroDivisionError")
  ELSE The({ Advance(s2) :
               s2 \in { _step(s1, R(1), s1.fr.save_best, resp) :
                          s1 \in {TemplateScheduled(s)} } })

-----------------------------------------------------------------------------
(* design_semigreedy *)

(* one pass of the while loop of mut: the keys split off the stream, the
   position and the identity drawn, and whether the loop breaks.  The
   position is drawn as with plddt None: the pLDDT weights change how likely
   a position is, not which positions can be drawn *)
MutDraw(s) ==
  LET ks == split(s._key, 3)
      i == randint(ks[2], 0, SeqLen)
      a == randint(ks[3], 0, s.args.A)
  IN  [_key |-> ks[1], i |-> i, a |-> a, break |-> s.fr.seq[i + 1] # a]

(* seq.at[:,i,:].set(jnp.eye(A)[a]) *)
Mutated(seq, i, a) == [seq EXCEPT ![i + 1] = a]

(* variant: the last candidate is taken *)
LastIndex(xs) == Len(xs)

(* np.argmin: the first index of the least loss *)
argmin(xs) ==
  CHOOSE j \in 1..Len(xs) :
    /\ \A l \in 1..Len(xs) : RLeq(xs[j], xs[l])
    /\ \A l \in 1..(j - 1) : RLess(xs[j], xs[l])

(* the top of the outer loop: the sequence mutated is the current outputs' *)
BeginIteration(s) ==
  [s EXCEPT !.fr = [@ EXCEPT !.seq = s._outs[1].seq, !.buff = <<>>],
            !.pc = IF s.fr.tries > 0 THEN "mut" ELSE "accept"]

SemigreedyEntry(s, iters, tries, dropout, save_best) ==
  [s EXCEPT
     !.opt = [@ EXCEPT !.hard = 1, !.soft = R(1), !.temp = R(1),
                       !.dropout = dropout],
     !.raised = "",
     !.fr = [IdleFrame EXCEPT !.iters = iters, !.tries = tries,
                              !.save_best = save_best]]

design_semigreedy(s, iters, tries, dropout, save_best, resp) ==
  The({ IF iters > 0 THEN BeginIteration(s2) ELSE Return(s2) :
          s2 \in { IF s1._k = 0 THEN _update(s1, FALSE, resp) ELSE s1 :
                     s1 \in {SemigreedyEntry(s, iters, tries, dropout,
                                             save_best)} } })

(* a pass of mut that draws the current identity: the loop goes round *)
mut_retry(s) == [s EXCEPT !._key = MutDraw(s)._key]

(* the pass of mut that breaks, and the evaluation of the candidate *)
Proposed(s) ==
  [s EXCEPT !._key = MutDraw(s)._key,
            !._params = Mutated(s.fr.seq, MutDraw(s).i, MutDraw(s).a)]

Buffered(s) ==
  [s EXCEPT !.fr = [@ EXCEPT !.buff =
                      Append(@, [outs |-> s._outs, loss |-> s._loss,
                                 losses |-> s._losses])],
            !.pc = IF Len(s.fr.buff) + 1 < s.fr.tries THEN "mut" ELSE "accept"]

try(s, resp) ==
  The({ Buffered(s2) :
          s2 \in { _update(s1, FALSE, resp) : s1 \in {Proposed(s)} } })

(* accept best, record, advance the counter *)
Accepted(s, b) ==
  [s EXCEPT !._outs = b.outs, !._loss = b.loss, !._losses = b.losses]

Best(buff) == buff[argmin([j \in 1..Len(buff) |-> buff[j].loss])]

NextIteration(s) ==
  IF s.fr.i + 1 < s.fr.iters
  THEN BeginIteration([s EXCEPT !._k = @ + 1, !.fr = [@ EXCEPT !.i = @ + 1]])
  ELSE Return([s EXCEPT !._k = @ + 1])

accept(s) ==
  IF s.fr.buff = <<>> THEN Raise(s, "ValueError")
  ELSE The({ NextIteration(s2) :
               s2 \in { _save_results(s1, s1.fr.save_best) :
                          s1 \in { Accepted(s, b) : b \in {Best(s.fr.buff)} } } })

-----------------------------------------------------------------------------
(* Sessions and their callers *)
Seeds == {<<6>>}            \* the seed a caller passes
Rands == {3, 4}             \* what random.randint returns for seed None
Vals == 0..MaxVal
Percent == Rat(1, 100)      \* 1e-2

Args(A, models, recycles, recycle_mode, sample, parallel, templates) ==
  [A |-> A, models |-> models, recycles |-> recycles,
   recycle_mode |-> recycle_mode, model_sample |-> sample,
   model_parallel |-> parallel, use_templates |-> templates]

(* the second session of a pair; a session alone is its own twin *)
Twin == IF twin = <<>> THEN self ELSE twin[1]
Both(s, t) == self' = s /\ twin' = IF twin = <<>> THEN <<>> ELSE <<t>>
At(pc) == self.pc = pc /\ Twin.pc = pc
Room(iters) == iters <= self.fuel /\ iters <= Twin.fuel

(* the replicas a step of the session may evaluate: any of the pool when
   they are sampled, else the ones the branch taken always evaluates *)
Asked(s) ==
  LET p == IF s.args.model_sample THEN ns(s)
           ELSE Batch(s, Take(ns(s), s.opt.models))
  IN  {p[j] : j \in 1..Len(p)}

(* the oracle's answers of one step, one for each replica it may be asked *)
Oracle == [Asked(self) \cup Asked(Twin) -> Vals]

(* a deterministic oracle: the same query gets the same answers *)
SameQuery ==
  /\ self._key = Twin._key /\ self._params = Twin._params
  /\ self._state = Twin._state /\ self.opt = Twin.opt /\ self.fr = Twin.fr
TwinResps(r1) == IF SameQuery THEN {r1} ELSE Oracle

(* a pair of sessions is restarted with a seed; one alone also without *)
SeedArgs == IF twin = <<>> THEN Seeds \cup {None} ELSE Seeds
TwinRands(r1) == IF twin = <<>> THEN {r1} ELSE Rands

(* design_logits, design_soft, design_hard and the stages of design_2stage
   and design_3stage, as the arguments they hand to design *)
Stage(temp, e_temp, soft, e_soft, hard, dropout, gumbel, save_best) ==
  [temp |-> temp, e_temp |-> e_temp, soft |-> soft, e_soft |-> e_soft,
   hard |-> hard, dropout |-> dropout, gumbel |-> gumbel,
   save_best |-> save_best]

Stages ==
  { Stage(R(1), None, R(0), None, FALSE, TRUE, FALSE, FALSE),
    Stage(R(1), None, R(0), <<R(1)>>, FALSE, TRUE, FALSE, TRUE),
    Stage(R(1), <<Percent>>, R(1), None, FALSE, TRUE, FALSE, FALSE),
    Stage(Percent, None, R(1), None, TRUE, FALSE, FALSE, TRUE) }

(* the calls of design whose schedule is examined *)
Schedules ==
  { Stage(t[1], t[2], s[1], s[2], f[1], f[2], f[3], FALSE) :
      t \in {<<R(1), None>>, <<R(1), <<Percent>>>>, <<Percent, None>>},
      s \in {<<R(0), None>>, <<R(0), <<R(1)>>>>, <<R(1), None>>,
             <<R(1), <<R(0)>>>>},
      f \in {<<FALSE, TRUE, FALSE>>, <<TRUE, FALSE, TRUE>>} }

-----------------------------------------------------------------------------
(* Actions: the calls a user makes, and the passes of their loops *)
(* a restart and a direct call of _update use up fuel, as a step does *)
Spent(s) == [s EXCEPT !.fuel = @ - 1]

Restart ==
  /\ At("idle")
  /\ Room(1)
  /\ \E seed \in SeedArgs, keep_history \in BOOLEAN, r1 \in Rands :
       \E r2 \in TwinRands(r1) :
         \E s \in {Spent(restart(self, seed, r1, keep_history))},
            t \in {Spent(restart(Twin, seed, r2, keep_history))} : Both(s, t)

DesignCall(g, iters) ==
  \E s \in {design(self, iters, g.temp, g.e_temp, g.soft, g.e_soft,
                   g.hard, g.dropout, g.gumbel, g.save_best)},
     t \in {design(Twin, iters, g.temp, g.e_temp, g.soft, g.e_soft,
                   g.hard, g.dropout, g.gumbel, g.save_best)} : Both(s, t)

Design ==
  /\ At("idle")
  /\ \E iters \in 1..MaxIters, g \in Stages : Room(iters) /\ DesignCall(g, iters)

DesignAnneal ==
  /\ At("idle")
  /\ \E iters \in 1..MaxStageIters, g \in Schedules :
       Room(iters) /\ DesignCall(g, iters)

DesignIter ==
  /\ At("design")
  /\ \E r1 \in Oracle : \E r2 \in TwinResps(r1) :
       \E s \in {design_iter(self, r1)}, t \in {design_iter(Twin, r2)} :
         Both(s, t)

TemplatePredesign ==
  /\ At("idle")
  /\ \E iters \in 1..MaxIters, soft \in BOOLEAN, save_best \in {FALSE} :
       /\ Room(iters)
       /\ \E s \in {template_predesign(self, iters, soft, ~soft, TRUE, R(1),
                                       save_best)},
             t \in {template_predesign(Twin, iters, soft, ~soft, TRUE, R(1),
                                       save_best)} : Both(s, t)

PredesignIter ==
  /\ At("predesign")
  /\ \E r1 \in Oracle : \E r2 \in TwinResps(r1) :
       \E s \in {predesign_iter(self, r1)}, t \in {predesign_iter(Twin, r2)} :
         Both(s, t)

Semigreedy ==
  /\ At("idle")
  /\ \E iters \in 1..MaxIters, tries \in 0..MaxTries, save_best \in BOOLEAN :
       /\ Room(iters)
       /\ \E r1 \in Oracle : \E r2 \in TwinResps(r1) :
            \E s \in {design_semigreedy(self, iters, tries, FALSE, save_best, r1)},
               t \in {design_semigreedy(Twin, iters, tries, FALSE, save_best, r2)} :
              Both(s, t)

MutRetry ==
  /\ At("mut")
  /\ ~MutDraw(self).break /\ ~MutDraw(Twin).break
  /\ Both(mut_retry(self), mut_retry(Twin))

Try ==
  /\ At("mut")
  /\ MutDraw(self).break /\ MutDraw(Twin).break
  /\ \E r1 \in Oracle : \E r2 \in TwinResps(r1) :
       \E s \in {try(self, r1)}, t \in {try(Twin, r2)} : Both(s, t)

Accept ==
  /\ At("accept")
  /\ \E s \in {accept(self)}, t \in {accept(Twin)} : Both(s, t)

(* a direct call of _update, as _step and design_semigreedy make it; it
   uses up fuel as a step does *)
Update ==
  /\ At("idle")
  /\ Room(1)
  /\ \E backprop \in BOOLEAN, r1 \in Oracle : \E r2 \in TwinResps(r1) :
       \E s \in {Spent(_update(self, backprop, r1))},
          t \in {Spent(_update(Twin, backprop, r2))} : Both(s, t)

Next ==
  \/ Restart
  \/ Design
  \/ DesignIter
  \/ TemplatePredesign
  \/ PredesignIter
  \/ Semigreedy
  \/ MutRetry
  \/ Try
  \/ Accept

NextSched ==
  \/ DesignAnneal
  \/ DesignIter
  \/ TemplatePredesign
  \/ PredesignIter

NextUpdate == Update

-----------------------------------------------------------------------------
(* Specifications *)

(* a session after construction: restarted, with its fuel *)
Fresh(args, seed, r, fuel) ==
  [restart(Blank(args), seed, r, FALSE) EXCEPT !.fuel = fuel]

Config(A) == Args(A, 1, 1, "average", FALSE, FALSE, TRUE)

(* replicas and recycle counts are sampled *)
ReproConfig == Args(MaxA, 1, MaxRecycles, "sample", TRUE, FALSE, TRUE)

UpdateConfigs ==
  { Args(MaxA, models, recycles, recycle_mode, sample, FALSE, templates) :
      models \in 1..2, recycles \in 0..MaxRecycles,
      recycle_mode \in {"average", "sample", "add_prev"},
      sample \in BOOLEAN, templates \in BOOLEAN }

(* one session, driven through every call *)
Init ==
  /\ \E seed \in Seeds : self = Fresh(Config(MaxA), seed, 3, MaxSteps)
  /\ twin = <<>>

Spec == Init /\ [][Next]_vars

(* one session of each alphabet size; a call that is running goes on
   running *)
InitMut ==
  /\ \E A \in 1..MaxA, seed \in Seeds :
       self = Fresh(Config(A), seed, 3, MaxMutSteps)
  /\ twin = <<>>

SpecMut == InitMut /\ [][Next]_vars /\ WF_vars(Next)

(* two sessions restarted with the same seed and driven by the same calls;
   the first of them has been restarted twice in a row *)
InitRepro ==
  /\ \E seed \in Seeds :
       /\ self = restart(Fresh(ReproConfig, seed, 3, MaxSteps), seed, 3, FALSE)
       /\ twin = <<Fresh(ReproConfig, seed, 4, MaxSteps)>>

SpecRepro == InitRepro /\ [][Next]_vars

(* two sessions that differ in the execution strategy of _update only:
   self runs the replicas in serial, its twin in parallel *)
InitUpdate ==
  /\ \E args \in UpdateConfigs, seed \in Seeds :
       /\ self = Fresh(args, seed, 3, MaxUpdates)
       /\ twin = <<Fresh([args EXCEPT !.model_parallel = TRUE], seed, 3,
                         MaxUpdates)>>

SpecUpdate == InitUpdate /\ [][NextUpdate]_vars

(* one session, driven through the annealed stages *)
InitSched ==
  /\ \E seed \in Seeds :
       self = Fresh(Args(1, 1, 0, "average", FALSE, FALSE, TRUE), seed, 3,
                    MaxStageIters)
  /\ twin = <<>>

SpecSched == InitSched /\ [][NextSched]_vars

-----------------------------------------------------------------------------
(* Properties *)
Last(xs) == xs[Len(xs)]
Saved == {j \in 1..Len(self.hist) : self.hist[j].save_best}
Recorded(s1, s2) ==
  /\ Len(s2.losses) = Len(s1.losses) + 1
  /\ Len(s2._traj.seq) = Len(s1._traj.seq) + 1
NothingRecorded(s1, s2) ==
  s2._traj = s1._traj /\ s2.losses = s1.losses /\ s2._k = s1._k
Accepting == self.pc = "accept" /\ self.fr.buff # <<>>

(* C1: the checkpoint is (+inf, None) while no step has been recorded with
   save_best since the restart that reset the history; otherwise its loss
   is the least loss of the steps recorded with save_best and its outputs
   are those of the earliest such step with that loss *)
BestIsEarliestMin ==
  IF Saved = {}
  THEN self._best_loss = Inf /\ self._best_outs = None
  ELSE \E j \in Saved :
         /\ \A l \in Saved : RLeq(self.hist[j].loss, self.hist[l].loss)
         /\ \A l \in Saved : l < j => RLess(self.hist[j].loss, self.hist[l].loss)
         /\ self._best_loss = self.hist[j].loss
         /\ self._best_outs = self.hist[j].outs

(* C1: the checkpoint changes only when a restart resets it or when a step
   is recorded with save_best and a loss strictly below the stored one *)
BestReplacedOnlyByImprovement ==
  (self'._best_loss # self._best_loss \/ self'._best_outs # self._best_outs)
    => \/ self'._best_loss = Inf /\ self'._best_outs = None /\ self'.hist = <<>>
       \/ /\ Len(self'.hist) = Len(self.hist) + 1
          /\ Last(self'.hist).save_best
          /\ RLess(Last(self'.hist).loss, self._best_loss)
          /\ self'._best_loss = Last(self'.hist).loss
          /\ self'._best_outs = Last(self'.hist).outs

(* C1: BestCheckpoint is the earliest minimum of the losses recorded with
   save_best since the restart, and is replaced only on strict improvement *)
C1_BestCheckpoint == []BestIsEarliestMin /\ [][BestReplacedOnlyByImprovement]_vars

(* C1 is exercised: a later step recorded with save_best improved on an
   earlier one, and a third step tied with the best *)
C1_Witness ==
  \E j, l, m \in Saved :
    /\ j < l /\ l < m
    /\ RLess(self.hist[l].loss, self.hist[j].loss)
    /\ self.hist[m].loss = self.hist[l].loss
    /\ self._best_outs = self.hist[l].outs
    /\ self.hist[m].outs # self.hist[l].outs

(* C2: the candidate accepted and recorded by an outer iteration of
   design_semigreedy is one of the candidates of that iteration, its loss
   is at most the loss of every other, exactly one entry is recorded for
   it, and evaluating the candidates records nothing *)
C2_AcceptedIsLowest ==
  [][ /\ Accepting =>
           /\ \E j \in 1..Len(self.fr.buff) :
                /\ self'._outs = self.fr.buff[j].outs
                /\ self'._loss = self.fr.buff[j].loss
                /\ self'._losses.con = self.fr.buff[j].losses.con
           /\ \A l \in 1..Len(self.fr.buff) :
                RLeq(self'._loss, self.fr.buff[l].loss)
           /\ self'.losses = Append(self.losses, self'._losses)
           /\ Last(self'.losses).loss = self'._loss
           /\ self'._traj.seq = Append(self._traj.seq, self'._outs[1].seq)
      /\ self.pc = "mut" => NothingRecorded(self, self') ]_vars

(* C2 is exercised: an iteration is about to accept among two candidates of
   different loss, the first of them the lower *)
C2_Witness ==
  /\ Accepting /\ Len(self.fr.buff) = 2
  /\ RLess(self.fr.buff[1].loss, self.fr.buff[2].loss)

(* C3: the serial and the parallel strategy aggregate over the same
   replicas, the m selected ones, and agree on the loss, the sub-losses, the
   gradient and the auxiliary outputs *)
C3_SerialParallelEqual ==
  twin # <<>> =>
    /\ self.agg = twin[1].agg
    /\ twin[1].agg = twin[1]._model_num
    /\ self._loss = twin[1]._loss
    /\ self._losses = twin[1]._losses
    /\ self._grad = twin[1]._grad
    /\ self._outs = twin[1]._outs

(* C4: while the last restart did not keep the history, the trajectory and
   the loss log are as long as the step counter says *)
LengthsAreSteps ==
  ~self.kept => Len(self._traj.seq) = self._k /\ Len(self.losses) = self._k

(* C4: the trajectory only grows, by one snapshot at a time, unless a
   restart empties it; a restart with keep_history leaves the trajectory,
   the loss log and the checkpoint alone; the evaluations of
   design_semigreedy record nothing *)
AppendOnly ==
  /\ \/ self'._traj = self._traj /\ self'.losses = self.losses
     \/ self'._traj.seq = <<>> /\ self'.losses = <<>> /\ self'._k = 0
     \/ /\ Len(self'.losses) = Len(self.losses) + 1
        /\ SubSeq(self'.losses, 1, Len(self.losses)) = self.losses
        /\ Len(self'._traj.seq) = Len(self._traj.seq) + 1
        /\ SubSeq(self'._traj.seq, 1, Len(self._traj.seq)) = self._traj.seq
        /\ self'._k = self._k + 1
  /\ (self.pc = "idle" /\ self'.pc = "idle" /\ self'.kept) =>
        /\ self'._traj = self._traj /\ self'.losses = self.losses
        /\ self'._best_loss = self._best_loss
        /\ self'._best_outs = self._best_outs
  /\ (self.pc = "idle" /\ self'.pc \in {"mut", "accept"}) =>
        NothingRecorded(self, self')
  /\ self.pc = "mut" => NothingRecorded(self, self')

(* C4: one snapshot a completed step, append-only, kept by a restart with
   keep_history *)
C4_TrajectoryAppendOnly == []LengthsAreSteps /\ [][AppendOnly]_vars

(* C4 is exercised: after the two gradient steps of a stage, an outer
   iteration of the semigreedy search has evaluated its two candidates *)
C4_Witness ==
  /\ ~self.kept /\ self._k = 2 /\ Len(self._traj.seq) = 2
  /\ self.pc = "accept" /\ Len(self.fr.buff) = 2
  /\ self.fr.i = 0

(* C5: "average" makes recycles+1 oracle calls and reports recycles;
   "sample" reports a count in [0, recycles] which is the count the oracle
   is told to run, and leaves the options' recycles as the caller set it *)
C5_RecyclePasses ==
  self._outs # None =>
    /\ self.args.recycle_mode = "average" =>
         /\ self.ncalls = self.opt.recycles + 1
         /\ self._outs[1].recycles = self.opt.recycles
    /\ self.args.recycle_mode = "sample" =>
         /\ self._outs[1].recycles \in 0..self.opt.recycles
         /\ self.told = self._outs[1].recycles
         /\ self.opt.recycles = self.args.recycles

(* C6: the pass i of a stage of more than one step *)
Between(x, a, b) == (RLeq(a, x) /\ RLeq(x, b)) \/ (RLeq(b, x) /\ RLeq(x, a))

ScheduleOfPass ==
  LET f == self.fr
      o == self'.opt
  IN  /\ f.i = 0 => o.temp = f.temp /\ o.soft = f.soft
      /\ f.i = f.iters - 1 => o.temp = f.e_temp /\ o.soft = f.e_soft
      /\ Between(o.soft, f.soft, f.e_soft)
      /\ f.i > 0 => Between(o.soft, self.opt.soft, f.e_soft)
      /\ self'._grad = NormalizeGrad(self'._loss,
                                     RAdd(RSub(R(1), o.soft), RMul(o.soft, o.temp)))
      /\ f.defaulted[1] => f.e_temp = f.temp
      /\ f.defaulted[2] => f.e_soft = f.soft
      /\ o.hard = (IF f.hard THEN 1 ELSE 0)
      /\ o.dropout = f.dropout /\ o.gumbel = f.gumbel
      /\ (f.iters = 4 /\ f.temp = R(1) /\ f.e_temp = R(1) /\ f.soft = R(0)
            /\ f.e_soft = R(1))
           => o.soft = Rat(f.i, 3) /\ o.temp = R(1)

(* C6: in a stage of more than one step, temp and soft start at the start
   values and end at the end values, soft moves monotonically between them,
   the step is scaled by (1 - soft) + soft * temp, the end values default
   to the start values, hard, dropout and gumbel are the stage's, and the
   4-step stage from soft 0 to 1 at temp 1 has soft 0, 1/3, 2/3, 1 *)
C6_Schedule ==
  [][(self.pc = "design" /\ self.fr.iters > 1) => ScheduleOfPass]_vars

(* C6 is exercised: the 4-step stage has made its third pass *)
C6_Witness ==
  /\ self.pc = "design" /\ self.fr.iters = 4 /\ self.fr.i = 3
  /\ self.fr.temp = R(1) /\ self.fr.e_temp = R(1)
  /\ self.fr.soft = R(0) /\ self.fr.e_soft = R(1)
  /\ self.opt.soft = Rat(2, 3) /\ self.opt.temp = R(1)

(* C7: two sessions restarted with the same seed, one of them twice in a
   row, and driven by the same calls are in the same state after every
   step: the same stream, sequence, replica selection, recycle count and
   mutations *)
C7_Reproducible == twin = <<self>>

(* C7 is exercised: both sessions have recorded a step and evaluated two
   mutated candidates with sampled replicas and recycle counts *)
C7_Witness ==
  /\ twin # <<>> /\ self._k >= 1
  /\ self.pc = "accept" /\ Len(self.fr.buff) = 2
  /\ self.fr.buff[1].outs # self.fr.buff[2].outs

(* C8 as stated: a stage of one step raises nothing, makes and records its
   step, and leaves nan in the scheduled fields *)
C8_NaNSurfaces ==
  [][(self.pc \in {"design", "predesign"} /\ self.fr.iters = 1) =>
       /\ self'.raised = ""
       /\ Recorded(self, self')
       /\ self.pc = "design" => self'.opt.temp = NaN /\ self'.opt.soft = NaN
       /\ self.pc = "predesign" => self'.opt.template_dropout = NaN]_vars

(* C8: a stage of one step ends with ZeroDivisionError on its first pass:
   no step is made or recorded and the options, the stream and the
   optimiser state are as the stage's entry left them *)
C8_DivisionRaises ==
  [][(self.pc \in {"design", "predesign"} /\ self.fr.iters = 1) =>
       /\ self'.raised = "ZeroDivisionError" /\ self'.pc = "raised"
       /\ NothingRecorded(self, self')
       /\ self'.opt = self.opt
       /\ self'._key = self._key
       /\ self'._state = self._state
       /\ self'._outs = self._outs]_vars

(* C8 is exercised: a stage of one step has raised *)
C8_Witness ==
  self.pc = "raised" /\ self.raised = "ZeroDivisionError" /\ self._k = 0

(* C9: the loop of mut is left whenever it is entered, and the identity it
   returns differs from the one the sequence has at the position *)
C9_MutTerminates ==
  /\ (self.pc = "mut") ~> (self.pc # "mut")
  /\ [][(self.pc = "mut" /\ MutDraw(self).break) =>
          self'._params[MutDraw(self).i + 1] # self.fr.seq[MutDraw(self).i + 1]]_vars

(* C10: when an outer iteration of design_semigreedy has accepted its
   candidate, the sequence parameters are the sequence of the recorded
   outputs *)
C10_ParamsAreAccepted ==
  [][Accepting => self'._params = self'._outs[1].seq]_vars

====
